---- MODULE Spec2Model ----
(***************************************************************************)
(* A model of the vml command line (src/src/cli.ts): source resolution,    *)
(* artifact path derivation, the generate / render / pipeline commands     *)
(* and the watch handler of generate --watch.                              *)
(*                                                                         *)
(* Strings are sequences of one-character strings, so that endsWith,       *)
(* startsWith, concatenation and the code-unit order used by               *)
(* Array.prototype.sort are computed, not assumed.                         *)
(***************************************************************************)
EXTENDS Naturals, Sequences, FiniteSets, TLC

(***************************************************************************)
(* Bounds of the model.                                                    *)
(***************************************************************************)
\* Entries per directory of the file trees the resolver is run on.
MaxEntries == 2

(***************************************************************************)
(* Strings.                                                                *)
(***************************************************************************)
\* The characters the model's strings are made of, in code-unit order.
Alphabet == <<".", "/", "4", "a", "b", "c", "d", "e", "f", "g", "i", "j", "l",
              "m", "n", "o", "p", "r", "s", "t", "u", "v", "w", "x", "y">>

\* Rank of a character in code-unit order (String comparison of JavaScript).
CodeUnit(c) == CHOOSE i \in 1..Len(Alphabet) : Alphabet[i] = c

\* The value undefined of an optional string; no string of characters equals it.
Undefined == <<"undefined">>

\* JavaScript truthiness of an optional string: undefined and "" are falsy.
Truthy(s) == s # Undefined /\ s # <<>>

\* String.prototype.endsWith
EndsWith(s, suffix) ==
    /\ Len(suffix) <= Len(s)
    /\ SubSeq(s, Len(s) - Len(suffix) + 1, Len(s)) = suffix

\* String.prototype.startsWith
StartsWith(s, prefix) ==
    /\ Len(prefix) <= Len(s)
    /\ SubSeq(s, 1, Len(prefix)) = prefix

\* a < b for strings: the first differing code unit decides, a proper prefix is smaller.
StrLess(a, b) ==
    LET n == IF Len(a) < Len(b) THEN Len(a) ELSE Len(b)
        diff == {i \in 1..n : a[i] # b[i]}
    IN IF diff = {}
       THEN Len(a) < Len(b)
       ELSE LET k == CHOOSE i \in diff : \A j \in diff : i <= j
            IN CodeUnit(a[k]) < CodeUnit(b[k])

\* Insert string x into the sorted sequence s, after the elements not greater than it.
RECURSIVE InsertSorted(_, _)
InsertSorted(x, s) ==
    IF s = <<>> THEN <<x>>
    ELSE IF StrLess(x, Head(s)) THEN <<x>> \o s
    ELSE <<Head(s)>> \o InsertSorted(x, Tail(s))

\* Array.prototype.sort() with the default comparison, on an array of strings.
RECURSIVE SortStrings(_)
SortStrings(s) ==
    IF s = <<>> THEN <<>>
    ELSE InsertSorted(s[Len(s)], SortStrings(SubSeq(s, 1, Len(s) - 1)))

Sep == <<"/">>

\* path.join(dir, name) for a normalized absolute dir and a relative name
\* without "." or ".." segments: one separator between the two.
Join(dir, name) ==
    IF EndsWith(dir, Sep) THEN dir \o name ELSE dir \o Sep \o name

\* The segments of a path: what lies between its separators, empty ones dropped.
RECURSIVE Segments(_)
Segments(p) ==
    LET slashes == {i \in 1..Len(p) : p[i] = "/"}
    IN IF p = <<>> THEN <<>>
       ELSE IF slashes = {} THEN <<p>>
       ELSE LET k == CHOOSE i \in slashes : \A j \in slashes : i <= j
            IN (IF k = 1 THEN <<>> ELSE <<SubSeq(p, 1, k - 1)>>)
               \o Segments(SubSeq(p, k + 1, Len(p)))

\* Normalization of path.resolve: "." is dropped, ".." drops the segment before
\* it (none at the root).
RECURSIVE NormalizeSegments(_, _)
NormalizeSegments(segs, out) ==
    IF segs = <<>> THEN out
    ELSE IF Head(segs) = <<".">> THEN NormalizeSegments(Tail(segs), out)
    ELSE IF Head(segs) = <<".", ".">>
    THEN NormalizeSegments(Tail(segs),
                           IF out = <<>> THEN out ELSE SubSeq(out, 1, Len(out) - 1))
    ELSE NormalizeSegments(Tail(segs), Append(out, Head(segs)))

\* The absolute path of the given segments.
RECURSIVE FromSegments(_)
FromSegments(segs) ==
    IF segs = <<>> THEN <<>> ELSE Sep \o Head(segs) \o FromSegments(Tail(segs))

\* path.resolve(cwd, p) for an absolute cwd: p itself when it is absolute, else
\* p below cwd; normalized, without a trailing separator.
resolve(cwd, p) ==
    LET segs == NormalizeSegments(IF StartsWith(p, Sep) THEN Segments(p)
                                  ELSE Segments(cwd) \o Segments(p), <<>>)
    IN IF segs = <<>> THEN Sep ELSE FromSegments(segs)

\* path.dirname of a normalized absolute path.
Dirname(p) ==
    LET slashes == {i \in 1..Len(p) : p[i] = "/"}
        last == CHOOSE i \in slashes : \A j \in slashes : j <= i
    IN IF last = 1 THEN Sep ELSE SubSeq(p, 1, last - 1)

DotBabulusTs == <<".", "b", "a", "b", "u", "l", "u", "s", ".", "t", "s">>
DotBabulusXml == <<".", "b", "a", "b", "u", "l", "u", "s", ".", "x", "m", "l">>
DotTs == <<".", "t", "s">>
DotXml == <<".", "x", "m", "l">>
DotYml == <<".", "y", "m", "l">>
DotYaml == <<".", "y", "a", "m", "l">>
ContentName == <<"c", "o", "n", "t", "e", "n", "t">>

(***************************************************************************)
(* The file system seen by the resolver: a directory is the sequence of    *)
(* its entries in the order readdirSync returns them; the type of an entry  *)
(* is what its Dirent reports: a regular file, a directory (with its own   *)
(* entries) or something else, neither isFile() nor isDirectory(): a       *)
(* socket or fifo (link "none"), or a symbolic link, whose link field says *)
(* what it leads to: nothing ("dangling"), a regular file ("file") or a    *)
(* directory ("dir", entries being the entries of that directory). What a  *)
(* link leads to lies in the directory TargetsDir, outside the working     *)
(* directory, under the name in the link's target field.                   *)
(***************************************************************************)
NoTarget == <<>>
FileEntry(name) ==
    [name |-> name, type |-> "file", entries |-> <<>>, link |-> "none", target |-> NoTarget]
OtherEntry(name) ==
    [name |-> name, type |-> "other", entries |-> <<>>, link |-> "none", target |-> NoTarget]
DirEntry(name, entries) ==
    [name |-> name, type |-> "dir", entries |-> entries, link |-> "none", target |-> NoTarget]
LinkEntry(name, kind, target, entries) ==
    [name |-> name, type |-> "other", entries |-> entries, link |-> kind, target |-> target]

\* What existsSync and statSync, which follow symbolic links, find at an entry:
\* "file", "dir", "special" (socket, fifo) or "dangling" (existsSync is false).
StatKind(e) ==
    IF e.type # "other" THEN e.type
    ELSE IF e.link = "none" THEN "special"
    ELSE e.link

NameA == <<"a", ".", "b", "a", "b", "u", "l", "u", "s", ".", "t", "s">>
NameB == <<"b", ".", "b", "a", "b", "u", "l", "u", "s", ".", "x", "m", "l">>
NameN == <<"a", ".", "t", "s">>
NameL == <<"l", ".", "b", "a", "b", "u", "l", "u", "s", ".", "t", "s">>
NameD == <<"d">>
NameX == <<"x">>
Dot == <<".">>
Cwd == <<"/", "w">>

\* Sequences of at most n entries drawn from pool, no name twice, in every order.
RECURSIVE Listings(_, _)
Listings(pool, n) ==
    IF n = 0 THEN {<<>>}
    ELSE LET shorter == Listings(pool, n - 1)
         IN shorter \cup
            {Append(l, e) : <<l, e>> \in
                {p \in shorter \X pool :
                    /\ Len(p[1]) = n - 1
                    /\ \A i \in 1..Len(p[1]) : p[1][i].name # p[2].name}}

\* Entries of a directory without subdirectories.
LeafPool == {FileEntry(NameA), FileEntry(NameB), FileEntry(NameN)}
LeafDirs == Listings(LeafPool, MaxEntries)

\* What the symbolic links of the working directory lead to when they lead to
\* a directory.
LinkedDir == <<FileEntry(NameA)>>

\* Where the targets of the symbolic links lie, and their names there: the
\* directory the links lead to, the regular file they lead to, and the name
\* nothing bears.
TargetsDirName == <<"t">>
TargetDirName == <<"t", "0">>
TargetFileName == <<"t", "1">>
TargetMissing == <<"t", "2">>

\* Entries of the working directory: files, a socket and symbolic links under
\* a source name, content/ and d/ as directories and as symbolic links.
CwdPool ==
    LeafPool \cup {OtherEntry(NameL)}
        \cup {LinkEntry(NameL, "dangling", TargetMissing, <<>>),
              LinkEntry(NameL, "file", TargetFileName, <<>>)}
        \cup {DirEntry(ContentName, l) : l \in LeafDirs}
        \cup {DirEntry(NameD, l) : l \in LeafDirs}
        \cup {LinkEntry(ContentName, "dangling", TargetMissing, <<>>),
              LinkEntry(ContentName, "file", TargetFileName, <<>>),
              LinkEntry(ContentName, "dir", TargetDirName, LinkedDir),
              FileEntry(ContentName)}
        \cup {LinkEntry(NameD, "dir", TargetDirName, LinkedDir)}
CwdListings == Listings(CwdPool, MaxEntries)

DotDot == <<".", ".">>

\* The [dsl] argument: absent, the working directory, the directory above it,
\* a name in the working directory, alone or with a trailing separator.
DslArgs == {Undefined, Dot, DotDot, NameD, NameD \o Sep, NameA, NameL, NameX}

(***************************************************************************)
(* Source resolution (cli.ts 310-355).                                     *)
(***************************************************************************)
Ok(paths) == [err |-> "none", paths |-> paths]
Throw(kind) == [err |-> kind, paths |-> <<>>]

\* entry.name.endsWith(".babulus.ts") || entry.name.endsWith(".babulus.xml")
IsDslName(name) == EndsWith(name, DotBabulusTs) \/ EndsWith(name, DotBabulusXml)

\* findDslFiles(root, recursive), entries being readdirSync(root).
RECURSIVE findDslFiles(_, _, _)

\* findDslFiles sorting each directory's own files only: what the subdirectories
\* return is appended as it comes.
findDslFiles_SortedPerDirectory(root, entries, recursive) ==
    LET own == SelectSeq(entries, LAMBDA e : e.type = "file" /\ IsDslName(e.name))
        dirs == SelectSeq(entries, LAMBDA e : e.type = "dir" /\ recursive)
        RECURSIVE Sub(_)
        Sub(i) ==
            IF i > Len(dirs) THEN <<>>
            ELSE findDslFiles(Join(root, dirs[i].name), dirs[i].entries, TRUE) \o Sub(i + 1)
    IN Sub(1) \o SortStrings([i \in 1..Len(own) |-> Join(root, own[i].name)])

findDslFiles(root, entries, recursive) ==
    LET RECURSIVE Loop(_, _)
        Loop(i, out) ==
            IF i > Len(entries) THEN out
            ELSE LET entry == entries[i]
                     full == Join(root, entry.name)
                 IN IF entry.type = "dir"
                    THEN IF recursive
                         THEN Loop(i + 1, out \o findDslFiles(full, entry.entries, TRUE))
                         ELSE Loop(i + 1, out)
                    ELSE IF entry.type = "file" /\ IsDslName(entry.name)
                         THEN Loop(i + 1, Append(out, full))
                         ELSE Loop(i + 1, out)
    IN SortStrings(Loop(1, <<>>))

\* The entries of the working directory named name.
Lookup(entries, name) == {i \in 1..Len(entries) : entries[i].name = name}

\* discoverProjectDsls(cwd): content/ recursively when existsSync finds it (a
\* dangling link is not found), else cwd itself, not recursively. readdirSync
\* of a content that is, or leads to, no directory throws ENOTDIR.
discoverProjectDsls(cwd, entries) ==
    LET hits == Lookup(entries, ContentName)
        exists == hits # {} /\ StatKind(entries[CHOOSE i \in hits : TRUE]) # "dangling"
    IN IF exists
       THEN LET c == entries[CHOOSE i \in hits : TRUE]
            IN IF StatKind(c) = "dir"
               THEN Ok(findDslFiles(Join(cwd, ContentName), c.entries, TRUE))
               ELSE Throw("Error")
       ELSE Ok(findDslFiles(cwd, entries, FALSE))

\* What existsSync and statSync find at the path of the given segments below a
\* directory with the given entries. Both follow symbolic links; a path through
\* something that is no directory does not exist.
RECURSIVE StatAt(_, _)
StatAt(entries, segs) ==
    IF segs = <<>> THEN [kind |-> "dir", entries |-> entries]
    ELSE LET hits == Lookup(entries, Head(segs))
         IN IF hits = {} THEN [kind |-> "dangling", entries |-> <<>>]
            ELSE LET e == entries[CHOOSE i \in hits : TRUE]
                 IN IF StatKind(e) = "dir" THEN StatAt(e.entries, Tail(segs))
                    ELSE IF Tail(segs) = <<>>
                    THEN [kind |-> StatKind(e), entries |-> <<>>]
                    ELSE [kind |-> "dangling", entries |-> <<>>]

\* What the symbolic links below a directory with the given entries lead to:
\* the entries of TargetsDir.
RECURSIVE LinkTargets(_)
LinkTargets(entries) ==
    UNION {LET e == entries[i]
           IN (IF e.link = "dir" THEN {DirEntry(e.target, e.entries)}
               ELSE IF e.link = "file" THEN {FileEntry(e.target)}
               ELSE {})
              \cup (IF e.entries = <<>> THEN {} ELSE LinkTargets(e.entries))
           : i \in 1..Len(entries)}

\* The elements of a set of entries as a directory listing, one per name.
RECURSIVE ListingOf(_)
ListingOf(S) ==
    IF S = {} THEN <<>>
    ELSE LET x == CHOOSE y \in S : TRUE
         IN <<x>> \o ListingOf({y \in S : y.name # x.name})

\* The content of a directory from which the given segments lead down to a
\* directory with the given entries.
RECURSIVE EntriesAbove(_, _)
EntriesAbove(segs, entries) ==
    IF segs = <<>> THEN entries
    ELSE <<DirEntry(Head(segs), EntriesAbove(Tail(segs), entries))>>

\* The content of the root directory when cwd holds the given entries: the
\* path down to cwd and, when a link leads somewhere, TargetsDir with what the
\* links lead to.
RootEntries(cwd, entries) ==
    LET targets == LinkTargets(entries)
    IN EntriesAbove(Segments(cwd), entries)
       \o (IF targets = {} THEN <<>>
           ELSE <<DirEntry(TargetsDirName, ListingOf(targets))>>)

\* resolveDslPaths(dslArg, cwd), entries being the content of cwd.
\* readdirSync of a socket or fifo throws ENOTDIR.
resolveDslPaths(dslArg, cwd, entries) ==
    IF Truthy(dslArg)
    THEN LET candidate == resolve(cwd, dslArg)
             st == StatAt(RootEntries(cwd, entries), Segments(candidate))
         IN IF st.kind = "dangling" THEN Throw("BabulusError")
            ELSE IF st.kind = "file" THEN Ok(<<candidate>>)
            ELSE IF st.kind = "dir" THEN Ok(findDslFiles(candidate, st.entries, TRUE))
            ELSE Throw("Error")
    ELSE LET auto == discoverProjectDsls(cwd, entries)
         IN IF auto.err # "none" THEN auto
            ELSE IF Len(auto.paths) = 0 THEN Throw("BabulusError")
            ELSE IF Len(auto.paths) > 1 THEN Throw("BabulusError")
            ELSE Ok(<<auto.paths[1]>>)

(***************************************************************************)
(* Artifact path derivation (cli.ts 366-386).                              *)
(***************************************************************************)
SrcVideos == <<"s", "r", "c", "/", "v", "i", "d", "e", "o", "s", "/">>
DotScriptJson == <<".", "s", "c", "r", "i", "p", "t", ".", "j", "s", "o", "n">>
DotTimelineJson == <<".", "t", "i", "m", "e", "l", "i", "n", "e", ".", "j", "s", "o", "n">>
PublicVideoml == <<"p", "u", "b", "l", "i", "c", "/", "v", "i", "d", "e", "o", "m", "l", "/">>
DotWav == <<".", "w", "a", "v">>
VideomlOut == <<".", "v", "i", "d", "e", "o", "m", "l", "/", "o", "u", "t", "/">>

\* typeof v === "string": every value of an option but undefined, "" included.
IsString(v) == v # Undefined

\* defaultsForComposition with `opts.x || default` in place of the typeof test:
\* an empty override string falls back to the default.
defaultsForComposition_TruthyOverride(compId, foundRoot, projectDir, opts) ==
    LET root == IF projectDir # Undefined THEN projectDir ELSE foundRoot
    IN [scriptOut |-> IF Truthy(opts.scriptOut) THEN opts.scriptOut
                      ELSE Join(root, SrcVideos \o compId \o Sep \o compId \o DotScriptJson),
        timelineOut |-> IF Truthy(opts.timelineOut) THEN opts.timelineOut
                        ELSE Join(root, SrcVideos \o compId \o Sep \o compId \o DotTimelineJson),
        audioOut |-> IF Truthy(opts.audioOut) THEN opts.audioOut
                     ELSE Join(root, PublicVideoml \o compId \o DotWav),
        outDir |-> IF Truthy(opts.outDir) THEN opts.outDir
                   ELSE Join(root, VideomlOut \o compId)]

\* defaultsForComposition(compId, dslPath, projectDir, opts); foundRoot is what
\* findProjectRoot(dslPath) returns.
defaultsForComposition(compId, foundRoot, projectDir, opts) ==
    LET root == IF projectDir # Undefined THEN projectDir ELSE foundRoot
    IN [scriptOut |-> IF IsString(opts.scriptOut) THEN opts.scriptOut
                      ELSE Join(root, SrcVideos \o compId \o Sep \o compId \o DotScriptJson),
        timelineOut |-> IF IsString(opts.timelineOut) THEN opts.timelineOut
                        ELSE Join(root, SrcVideos \o compId \o Sep \o compId \o DotTimelineJson),
        audioOut |-> IF IsString(opts.audioOut) THEN opts.audioOut
                     ELSE Join(root, PublicVideoml \o compId \o DotWav),
        outDir |-> IF IsString(opts.outDir) THEN opts.outDir
                   ELSE Join(root, VideomlOut \o compId)]

\* Composition ids, project roots and override strings the derivation is run on.
IdI == <<"i">>
IdJ == <<"j">>
RootP == <<"/", "p">>
OutO == <<"/", "o">>
CompIds == {IdI, IdJ}
Roots == {Cwd, RootP, Sep}
OverrideValues == {Undefined, <<>>, OutO}
NoOverrides ==
    [scriptOut |-> Undefined, timelineOut |-> Undefined, audioOut |-> Undefined,
     outDir |-> Undefined]
OverrideOpts ==
    [scriptOut : OverrideValues, timelineOut : OverrideValues,
     audioOut : OverrideValues, outDir : OverrideValues]

(***************************************************************************)
(* Generation requests and the batch loop runOnce (cli.ts 61-91).          *)
(***************************************************************************)
\* findProjectRoot(dslPath): the project marker lies in the working directory.
findProjectRoot(dslPath) == Cwd

\* The argument of one generateComposition call (the fields the command derives;
\* config and the provider knobs are forwarded as given).
GenerationRequest(comp, dslPath, projectDir, opts) ==
    LET d == defaultsForComposition(comp, findProjectRoot(dslPath), projectDir, opts)
    IN [composition |-> comp, dslPath |-> dslPath, scriptOut |-> d.scriptOut,
        timelineOut |-> d.timelineOut, audioOut |-> d.audioOut, outDir |-> d.outDir]

\* runOnce() is called without a subset: dslSubset is undefined.
AllRuns == <<Undefined>>

\* Array.prototype.includes
Includes(array, x) == \E i \in 1..Len(array) : array[i] = x

\* runOnce skipping no run: the dslSubset filter is ignored.
runOnce_IgnoresSubset(runs, dslSubset, projectDir, opts) ==
    LET RECURSIVE Rest(_)
        Rest(r) ==
            IF r > Len(runs) THEN <<>>
            ELSE [c \in 1..Len(runs[r].compositions) |->
                    GenerationRequest(runs[r].compositions[c], runs[r].path, projectDir, opts)]
                 \o Rest(r + 1)
    IN Rest(1)

\* runOnce(dslSubset): the generateComposition calls of one batch, in the order
\* the two loops issue them; each is awaited before the next is issued.
runOnce(runs, dslSubset, projectDir, opts) ==
    LET RECURSIVE Rest(_)
        Rest(r) ==
            IF r > Len(runs) THEN <<>>
            ELSE IF dslSubset # AllRuns /\ ~Includes(dslSubset, runs[r].path)
            THEN Rest(r + 1)
            ELSE [c \in 1..Len(runs[r].compositions) |->
                    GenerationRequest(runs[r].compositions[c], runs[r].path, projectDir, opts)]
                 \o Rest(r + 1)
    IN Rest(1)

(***************************************************************************)
(* State.                                                                  *)
(***************************************************************************)
VARIABLES
    cwdEntries,   \* the entries of the working directory
    dslArg,       \* the [dsl] argument
    resolved,     \* what resolveDslPaths returned or threw; "pending" before the call
    deriveIn,     \* arguments of a call of defaultsForComposition
    derived,      \* its result; not done before the call
    cmd,          \* the subcommand: "generate", "render", "pipeline"; "none" outside Spec
    opts,         \* the options of generate / pipeline
    declared,     \* file name -> the composition ids loadVideoFile yields for it
    configFiles,  \* which of .videoml/config.yml, .babulus/config.yml exist
    renderFiles,  \* render: what lies at --script and --timeline
    pc,           \* where the action is suspended
    exit,         \* "running", or how the process ended: "0", "1", "2", "SIGINT"
    dslPaths,     \* const dslPaths
    runs,         \* const runs, filled by loadCompositions
    session,      \* configPath, dslDirs, watchDirs of watch mode
    batches,      \* the executions of runOnce that await a generateComposition call
    finished,     \* the execution of runOnce that ended last
    lastEvent,    \* the last change event and the branch the handler took
    events,       \* change events delivered
    genCalls,     \* generateComposition calls issued
    genDone,      \* generateComposition calls that resolved
    renderCalls,  \* renderVideoFromScript calls issued
    failure,      \* the error that ended the process: "none", "BabulusError", "Error"
    burst         \* the branches taken for the change events delivered back to back

resolveVars == <<cwdEntries, dslArg, resolved>>
deriveVars == <<deriveIn, derived>>
worldVars == <<cmd, opts, declared, configFiles, renderFiles>>
watchVars == <<session, batches, finished, lastEvent, events, burst>>
callVars == <<genCalls, genDone, renderCalls>>
vars == <<resolveVars, deriveVars, worldVars, pc, exit, failure, dslPaths, runs, watchVars, callVars>>

Pending == [err |-> "pending", paths |-> <<>>]
NotDerived == [done |-> FALSE, paths |-> NoOverrides]
NoDeriveIn == [compId |-> IdI, foundRoot |-> Cwd, projectDir |-> Undefined,
               opts |-> NoOverrides]
NoOpts == [watch |-> FALSE, scriptOut |-> Undefined, timelineOut |-> Undefined,
           audioOut |-> Undefined, outDir |-> Undefined, usageOut |-> Undefined,
           projectDir |-> Undefined]
NoRenderFiles == [script |-> "json", timeline |-> "absent"]
NoSession == [configPath |-> Undefined, dslDirs |-> <<>>, watchDirs |-> <<>>]
NoBatch == [trigger |-> "none", dslSubset |-> AllRuns, issued |-> 0, status |-> "none",
            overlapped |-> 0, since |-> 0, error |-> "none"]
NoEvent == [path |-> Undefined, branch |-> "none"]
NoDeclared == [n \in {NameA, NameB, NameN} |-> <<>>]

ResolveIdle == cwdEntries = <<>> /\ dslArg = Undefined /\ resolved = Pending
DeriveIdle == deriveIn = NoDeriveIn /\ derived = NotDerived
ProcessIdle ==
    /\ pc = "start" /\ exit = "running" /\ failure = "none"
    /\ dslPaths = <<>> /\ runs = <<>>
    /\ session = NoSession /\ batches = <<>> /\ finished = NoBatch
    /\ lastEvent = NoEvent /\ events = 0 /\ burst = <<>>
    /\ genCalls = 0 /\ genDone = 0 /\ renderCalls = 0
CliIdle ==
    /\ cmd = "none" /\ opts = NoOpts /\ declared = NoDeclared
    /\ configFiles = {} /\ renderFiles = NoRenderFiles
    /\ ProcessIdle
cliVars == <<worldVars, pc, exit, failure, dslPaths, runs, watchVars, callVars>>

(***************************************************************************)
(* SpecResolve: resolveDslPaths applied to every small file tree.          *)
(***************************************************************************)
InitResolve ==
    /\ cwdEntries \in CwdListings
    /\ dslArg \in DslArgs
    /\ resolved = Pending
    /\ DeriveIdle
    /\ CliIdle

Resolve ==
    /\ cmd = "none"
    /\ resolved = Pending
    /\ resolved' = resolveDslPaths(dslArg, Cwd, cwdEntries)
    /\ UNCHANGED <<cwdEntries, dslArg, deriveVars, cliVars>>

NextResolve == Resolve

SpecResolve == InitResolve /\ [][NextResolve]_vars

(***************************************************************************)
(* SpecDerive: defaultsForComposition applied to every input.              *)
(***************************************************************************)
InitDerive ==
    /\ deriveIn \in [compId : CompIds, foundRoot : {Cwd}, projectDir : {Undefined} \cup Roots,
                      opts : OverrideOpts]
    /\ derived = NotDerived
    /\ ResolveIdle
    /\ CliIdle

Derive ==
    /\ ~derived.done
    /\ derived' = [done |-> TRUE,
                   paths |-> defaultsForComposition(deriveIn.compId, deriveIn.foundRoot,
                                                    deriveIn.projectDir, deriveIn.opts)]
    /\ UNCHANGED <<deriveIn, resolveVars, cliVars>>

NextDerive == Derive

SpecDerive == InitDerive /\ [][NextDerive]_vars

(***************************************************************************)
(* The generate command (cli.ts 39-156).                                   *)
(***************************************************************************)
\* Change events delivered to one watch session.
MaxEvents == 3

DotVideoml == <<".", "v", "i", "d", "e", "o", "m", "l">>
DotBabulus == <<".", "b", "a", "b", "u", "l", "u", "s">>
ConfigYml == <<"c", "o", "n", "f", "i", "g", ".", "y", "m", "l">>
NameYml == <<"c", ".", "y", "m", "l">>
NamePng == <<"p", ".", "p", "n", "g">>
UsageU == <<"/", "u">>

\* path.basename of a normalized absolute path.
Basename(p) ==
    LET slashes == {i \in 1..Len(p) : p[i] = "/"}
        last == CHOOSE i \in slashes : \A j \in slashes : j <= i
    IN SubSeq(p, last + 1, Len(p))

\* loadVideoFile(dslPath).compositions, when the loader succeeds.
loadVideoFile(dslPath) == declared[Basename(dslPath)]

\* opts.scriptOut || opts.timelineOut || opts.audioOut || opts.outDir || opts.usageOut
AnyOverride(o) ==
    \/ Truthy(o.scriptOut) \/ Truthy(o.timelineOut) \/ Truthy(o.audioOut)
    \/ Truthy(o.outDir) \/ Truthy(o.usageOut)

\* const projectDir = opts.projectDir ? resolve(cwd, opts.projectDir) : undefined
ProjectDir == IF Truthy(opts.projectDir) THEN resolve(Cwd, opts.projectDir) ELSE Undefined

\* runs.reduce((sum, r) => sum + r.compositions.length, 0)
RECURSIVE TotalComps(_)
TotalComps(rs) ==
    IF rs = <<>> THEN 0 ELSE Len(Head(rs).compositions) + TotalComps(Tail(rs))

\* findConfigPathForWatch(projectDir, dslPath)
findConfigPathForWatch(projectDir, dslPath) ==
    LET root == IF projectDir # Undefined THEN projectDir ELSE findProjectRoot(dslPath)
    IN IF "videoml" \in configFiles THEN Join(Join(root, DotVideoml), ConfigYml)
       ELSE IF "babulus" \in configFiles THEN Join(Join(root, DotBabulus), ConfigYml)
       ELSE Undefined

\* Array.from(new Set(array)): the first occurrence of each element, in order.
RECURSIVE Unique(_)
Unique(array) ==
    IF array = <<>> THEN <<>>
    ELSE LET front == Unique(SubSeq(array, 1, Len(array) - 1))
             x == array[Len(array)]
         IN IF Includes(front, x) THEN front ELSE Append(front, x)

\* Lines 98-103: the watch session of the resolved paths.
WatchSession(paths) ==
    LET configPath == findConfigPathForWatch(ProjectDir,
                                            IF paths = <<>> THEN Undefined ELSE paths[1])
        dslDirs == Unique([i \in 1..Len(paths) |-> Dirname(paths[i])])
    IN [configPath |-> configPath,
        dslDirs |-> dslDirs,
        watchDirs |-> IF configPath # Undefined
                      THEN Append(dslDirs, Dirname(configPath)) ELSE dslDirs]

\* The catch of program.parseAsync (lines 301-308): exit 2 for a BabulusError, else 1.
Die(kind) ==
    /\ pc' = "exited"
    /\ exit' = IF kind = "BabulusError" THEN "2" ELSE "1"
    /\ failure' = kind

ErrorKinds == {"BabulusError", "Error"}

RemoveAt(seq, i) == SubSeq(seq, 1, i - 1) \o SubSeq(seq, i + 1, Len(seq))

\* StartRunOnce with the calls of the batch issued together (Promise.all over the
\* compositions) instead of one after the other.
StartRunOnce_AllAtOnce(trigger, dslSubset, theRuns) ==
    LET plan == runOnce(theRuns, dslSubset, ProjectDir, opts)
        b == [trigger |-> trigger, dslSubset |-> dslSubset, issued |-> Len(plan),
              status |-> "done", overlapped |-> 0,
              since |-> IF trigger = "oneshot" THEN 0 ELSE events + 1, error |-> "none"]
    IN IF plan = <<>>
       THEN /\ finished' = b
            /\ batches' = batches
            /\ genCalls' = genCalls
       ELSE /\ finished' = finished
            /\ batches' = Append(batches, [b EXCEPT !.status = "awaiting"])
            /\ genCalls' = genCalls + Len(plan)

\* A call of runOnce(dslSubset), run up to its first await; every execution that
\* is awaiting a call at that moment is overlapped by it.
StartRunOnce(trigger, dslSubset, theRuns) ==
    LET plan == runOnce(theRuns, dslSubset, ProjectDir, opts)
        b == [trigger |-> trigger, dslSubset |-> dslSubset, issued |-> 0,
              status |-> "done", overlapped |-> 0,
              since |-> IF trigger = "oneshot" THEN 0 ELSE events + 1, error |-> "none"]
        others == [i \in 1..Len(batches) |->
                      [batches[i] EXCEPT !.overlapped = @ + 1]]
    IN IF plan = <<>>
       THEN /\ finished' = b
            /\ batches' = others
            /\ genCalls' = genCalls
       ELSE /\ finished' = finished
            /\ batches' = Append(others, [b EXCEPT !.issued = 1, !.status = "awaiting"])
            /\ genCalls' = genCalls + 1

\* GenerateContinue with line 93 testing nothing: runOnce() is called in watch
\* mode too, before the watcher is set up.
GenerateContinue_InitialRun(paths, theRuns) ==
    /\ runs' = theRuns
    /\ IF AnyOverride(opts) /\ TotalComps(theRuns) # 1
       THEN /\ Die("BabulusError")
            /\ UNCHANGED <<session, batches, finished, genCalls>>
       ELSE \E config \in {"loaded"} \cup ErrorKinds :
            IF config # "loaded"
            THEN /\ Die(config)
                 /\ UNCHANGED <<session, batches, finished, genCalls>>
            ELSE /\ StartRunOnce("oneshot", AllRuns, theRuns)
                 /\ session' = IF opts.watch THEN WatchSession(paths) ELSE session
                 /\ IF opts.watch
                    THEN pc' = "watching" /\ exit' = exit /\ failure' = failure
                    ELSE IF runOnce(theRuns, AllRuns, ProjectDir, opts) = <<>>
                    THEN pc' = "exited" /\ exit' = "0" /\ failure' = failure
                    ELSE pc' = "generating" /\ exit' = exit /\ failure' = failure

\* Lines 54-116, reached when loadCompositions has returned theRuns: the override
\* check, loadConfig, then either the one batch of a plain run or the watcher.
GenerateContinue(paths, theRuns) ==
    /\ runs' = theRuns
    /\ IF AnyOverride(opts) /\ TotalComps(theRuns) # 1
       THEN /\ Die("BabulusError")
            /\ UNCHANGED <<session, batches, finished, genCalls>>
       ELSE \E config \in {"loaded"} \cup ErrorKinds :
            IF config # "loaded"
            THEN /\ Die(config)
                 /\ UNCHANGED <<session, batches, finished, genCalls>>
            ELSE IF ~opts.watch
            THEN /\ StartRunOnce("oneshot", AllRuns, theRuns)
                 /\ IF runOnce(theRuns, AllRuns, ProjectDir, opts) = <<>>
                    THEN pc' = "exited" /\ exit' = "0" /\ failure' = failure
                    ELSE pc' = "generating" /\ exit' = exit /\ failure' = failure
                 /\ session' = session
            ELSE /\ session' = WatchSession(paths)
                 /\ pc' = "watching"
                 /\ exit' = exit /\ failure' = failure
                 /\ UNCHANGED <<batches, finished, genCalls>>

\* Lines 40-53, up to the first await of loadCompositions.
GenerateBegin ==
    /\ cmd = "generate" /\ pc = "start"
    /\ resolved' = resolveDslPaths(dslArg, Cwd, cwdEntries)
    /\ dslPaths' = resolved'.paths
    /\ IF resolved'.err # "none"
       THEN /\ Die(resolved'.err)
            /\ UNCHANGED <<runs, session, batches, finished, genCalls>>
       ELSE IF opts.watch /\ AnyOverride(opts) /\ Len(dslPaths') # 1
       THEN /\ Die("BabulusError")
            /\ UNCHANGED <<runs, session, batches, finished, genCalls>>
       ELSE IF dslPaths' = <<>>
       THEN GenerateContinue(<<>>, <<>>)
       ELSE /\ pc' = "loading"
            /\ UNCHANGED <<exit, failure, runs, session, batches, finished, genCalls>>
    /\ UNCHANGED <<cwdEntries, dslArg, deriveVars, worldVars, lastEvent, events, burst,
                   genDone, renderCalls>>

\* loadCompositions (lines 357-364): one loadVideoFile resolves; after the last
\* one the action goes on.
LoadVideoFileReturns ==
    /\ cmd = "generate" /\ pc = "loading"
    /\ LET dslPath == dslPaths[Len(runs) + 1]
           theRuns == Append(runs, [path |-> dslPath,
                                    compositions |-> loadVideoFile(dslPath)])
       IN IF Len(theRuns) < Len(dslPaths)
          THEN /\ runs' = theRuns
               /\ UNCHANGED <<pc, exit, failure, session, batches, finished, genCalls>>
          ELSE GenerateContinue(dslPaths, theRuns)
    /\ UNCHANGED <<resolveVars, deriveVars, worldVars, dslPaths, lastEvent, events, burst,
                   genDone, renderCalls>>

\* loadVideoFile rejects: the action rejects.
LoadVideoFileThrows ==
    /\ cmd = "generate" /\ pc = "loading"
    /\ \E kind \in ErrorKinds : Die(kind)
    /\ UNCHANGED <<resolveVars, deriveVars, worldVars, dslPaths, runs, watchVars, callVars>>

\* The awaited generateComposition of execution i of runOnce resolves: the loops
\* issue the next call, or runOnce returns.
GenerateCompositionReturns(i) ==
    /\ pc \in {"generating", "watching"}
    /\ i \in 1..Len(batches)
    /\ LET b == batches[i]
           plan == runOnce(runs, b.dslSubset, ProjectDir, opts)
       IN /\ genDone' = genDone + 1
          /\ IF b.issued < Len(plan)
             THEN /\ batches' = [batches EXCEPT ![i].issued = @ + 1]
                  /\ genCalls' = genCalls + 1
                  /\ UNCHANGED <<finished, pc, exit, failure>>
             ELSE /\ batches' = RemoveAt(batches, i)
                  /\ finished' = [b EXCEPT !.status = "done"]
                  /\ genCalls' = genCalls
                  /\ IF b.trigger = "oneshot"
                     THEN pc' = "exited" /\ exit' = "0" /\ failure' = failure
                     ELSE UNCHANGED <<pc, exit, failure>>
    /\ burst' = <<>>
    /\ UNCHANGED <<resolveVars, deriveVars, worldVars, dslPaths, runs, session,
                   lastEvent, events, renderCalls>>

\* GenerateCompositionThrows with the rejection caught inside the loop: the
\* failure is noted and the batch goes on with its next composition.
GenerateCompositionThrows_Continues(i) ==
    /\ pc \in {"generating", "watching"}
    /\ i \in 1..Len(batches)
    /\ LET b == batches[i]
           plan == runOnce(runs, b.dslSubset, ProjectDir, opts)
       IN \E kind \in ErrorKinds :
            /\ finished' = [b EXCEPT !.status = "failed", !.error = kind]
            /\ IF b.issued < Len(plan)
               THEN /\ batches' = [batches EXCEPT ![i].issued = @ + 1]
                    /\ genCalls' = genCalls + 1
                    /\ UNCHANGED <<pc, exit, failure>>
               ELSE /\ batches' = <<>>
                    /\ genCalls' = genCalls
                    /\ IF b.trigger = "oneshot"
                       THEN Die(kind)
                       ELSE pc' = "exited" /\ exit' = "1" /\ failure' = kind
    /\ burst' = <<>>
    /\ UNCHANGED <<resolveVars, deriveVars, worldVars, dslPaths, runs, session,
                   lastEvent, events, genDone, renderCalls>>

\* The awaited generateComposition rejects: runOnce rejects. In the plain run
\* the action rejects and parseAsync's catch exits. In a watch handler nothing
\* awaits or catches the handler's promise: the rejection is unhandled, and
\* Node ends the process with exit code 1.
GenerateCompositionThrows(i) ==
    /\ pc \in {"generating", "watching"}
    /\ i \in 1..Len(batches)
    /\ LET b == batches[i]
       IN \E kind \in ErrorKinds :
            /\ batches' = <<>>
            /\ finished' = [b EXCEPT !.status = "failed", !.error = kind]
            /\ IF b.trigger = "oneshot"
               THEN Die(kind)
               ELSE pc' = "exited" /\ exit' = "1" /\ failure' = kind
    /\ burst' = <<>>
    /\ UNCHANGED <<resolveVars, deriveVars, worldVars, dslPaths, runs, session,
                   lastEvent, events, callVars>>

\* Lines 122-129: the extensions the handler lets through.
RelevantExtension(absChanged) ==
    \/ EndsWith(absChanged, DotTs) \/ EndsWith(absChanged, DotXml)
    \/ EndsWith(absChanged, DotYml) \/ EndsWith(absChanged, DotYaml)

\* HandlerBranch without its extension tests: every path below a tracked source
\* directory that is no tracked source counts as shared.
HandlerBranch_NoExtensionTest(absChanged) ==
    IF session.configPath # Undefined /\ absChanged = session.configPath THEN "config"
    ELSE IF Includes(dslPaths, absChanged) THEN "dsl"
    ELSE IF \E i \in 1..Len(session.dslDirs) :
                  StartsWith(absChanged, session.dslDirs[i] \o Sep)
    THEN "shared"
    ELSE "ignored"

\* Lines 118-155: the branch the handler takes for a changed path.
HandlerBranch(absChanged) ==
    IF ~RelevantExtension(absChanged) THEN "ignored"
    ELSE IF session.configPath # Undefined /\ absChanged = session.configPath THEN "config"
    ELSE IF Includes(dslPaths, absChanged) THEN "dsl"
    ELSE IF /\ \E i \in 1..Len(session.dslDirs) :
                  StartsWith(absChanged, session.dslDirs[i] \o Sep)
            /\ (EndsWith(absChanged, DotTs) \/ EndsWith(absChanged, DotXml))
    THEN "shared"
    ELSE "ignored"

\* The paths chokidar reports: the config file and a .ts file beside it, the
\* tracked sources and other files directly in a source directory.
EventPaths ==
    (IF session.configPath = Undefined THEN {}
     ELSE {session.configPath, Join(Dirname(session.configPath), NameN)})
        \cup {dslPaths[i] : i \in 1..Len(dslPaths)}
        \cup {Join(session.dslDirs[i], n) :
                i \in 1..Len(session.dslDirs), n \in {NameN, NameYml, NamePng}}

\* ChangeEvent with the watched directories recomputed by the handler: the
\* directory of a changed path that started a rebuild is added to them.
ChangeEvent_RecomputesWatchDirs(changedPath) ==
    /\ pc = "watching"
    /\ events < MaxEvents
    /\ changedPath \in EventPaths
    /\ events' = events + 1
    /\ LET branch == HandlerBranch(changedPath)
       IN /\ lastEvent' = [path |-> changedPath, branch |-> branch]
          /\ burst' = Append(burst, branch)
          /\ IF branch = "ignored"
             THEN UNCHANGED <<batches, finished, genCalls, session>>
             ELSE /\ StartRunOnce(branch,
                                  IF branch = "dsl" THEN <<changedPath>> ELSE AllRuns, runs)
                  /\ session' = [session EXCEPT
                                    !.watchDirs = Append(@, Dirname(changedPath))]
    /\ UNCHANGED <<resolveVars, deriveVars, worldVars, pc, exit, failure, dslPaths, runs,
                   genDone, renderCalls>>

\* watcher.on("all", ...): the handler runs up to its first await.
ChangeEvent(changedPath) ==
    /\ pc = "watching"
    /\ events < MaxEvents
    /\ changedPath \in EventPaths
    /\ events' = events + 1
    /\ LET branch == HandlerBranch(changedPath)
       IN /\ lastEvent' = [path |-> changedPath, branch |-> branch]
          /\ burst' = Append(burst, branch)
          /\ IF branch = "ignored"
             THEN UNCHANGED <<batches, finished, genCalls>>
             ELSE StartRunOnce(branch,
                               IF branch = "dsl" THEN <<changedPath>> ELSE AllRuns, runs)
    /\ UNCHANGED <<resolveVars, deriveVars, worldVars, pc, exit, failure, dslPaths, runs,
                   session, genDone, renderCalls>>

\* Ctrl+C ends the watch session, and the calls in flight with the process.
Interrupt ==
    /\ pc = "watching"
    /\ pc' = "exited"
    /\ exit' = "SIGINT"
    /\ batches' = <<>>
    /\ burst' = <<>>
    /\ UNCHANGED <<resolveVars, deriveVars, worldVars, failure, dslPaths, runs, session,
                   finished, lastEvent, events, callVars>>

(***************************************************************************)
(* The render command (cli.ts 186-229).                                    *)
(***************************************************************************)
\* JSON.parse(readFileSync(path, "utf8")): "threw" when no file is there (ENOENT)
\* or its text is no JSON (SyntaxError); neither is a BabulusError.
ReadJson(file) == IF file = "json" THEN "parsed" ELSE "threw"

\* Lines 187-205: read the script and the optional timeline, call the renderer.
RenderBegin ==
    /\ cmd = "render" /\ pc = "start"
    /\ IF ReadJson(renderFiles.script) = "threw"
       THEN Die("Error") /\ renderCalls' = renderCalls
       ELSE IF renderFiles.timeline # "absent" /\ ReadJson(renderFiles.timeline) = "threw"
       THEN Die("Error") /\ renderCalls' = renderCalls
       ELSE /\ pc' = "rendering"
            /\ exit' = exit /\ failure' = failure
            /\ renderCalls' = renderCalls + 1
    /\ UNCHANGED <<resolveVars, deriveVars, worldVars, dslPaths, runs, watchVars,
                   genCalls, genDone>>

\* renderVideoFromScript resolves (render line 228, pipeline line 298): the
\* action returns and the process ends.
RenderReturns ==
    /\ pc = "rendering"
    /\ pc' = "exited"
    /\ exit' = "0" /\ failure' = failure
    /\ UNCHANGED <<resolveVars, deriveVars, worldVars, dslPaths, runs, watchVars, callVars>>

\* renderVideoFromScript rejects.
RenderThrows ==
    /\ pc = "rendering"
    /\ \E kind \in ErrorKinds : Die(kind)
    /\ UNCHANGED <<resolveVars, deriveVars, worldVars, dslPaths, runs, watchVars, callVars>>

(***************************************************************************)
(* The pipeline command (cli.ts 237-299).                                  *)
(***************************************************************************)
\* Lines 238-246, up to the await of loadVideoFile.
PipelineBegin ==
    /\ cmd = "pipeline" /\ pc = "start"
    /\ resolved' = resolveDslPaths(dslArg, Cwd, cwdEntries)
    /\ dslPaths' = resolved'.paths
    /\ IF resolved'.err # "none"
       THEN Die(resolved'.err)
       ELSE IF Len(dslPaths') # 1
       THEN Die("BabulusError")
       ELSE pc' = "loading" /\ exit' = exit /\ failure' = failure
    /\ UNCHANGED <<cwdEntries, dslArg, deriveVars, worldVars, runs, watchVars, callVars>>

\* PipelineLoadReturns without the test of spec.compositions.length: the first
\* composition is generated whatever their number.
PipelineLoadReturns_AnyCompositionCount ==
    /\ cmd = "pipeline" /\ pc = "loading"
    /\ runs' = <<[path |-> dslPaths[1], compositions |-> loadVideoFile(dslPaths[1])]>>
    /\ \E config \in {"loaded"} \cup ErrorKinds :
         IF config # "loaded"
         THEN Die(config) /\ genCalls' = genCalls
         ELSE /\ pc' = "generating"
              /\ exit' = exit /\ failure' = failure
              /\ genCalls' = genCalls + 1
    /\ UNCHANGED <<resolveVars, deriveVars, worldVars, dslPaths, watchVars, genDone,
                   renderCalls>>

\* Lines 247-265: loadVideoFile resolved; one composition is required, then
\* loadConfig and the generateComposition call.
PipelineLoadReturns ==
    /\ cmd = "pipeline" /\ pc = "loading"
    /\ runs' = <<[path |-> dslPaths[1], compositions |-> loadVideoFile(dslPaths[1])]>>
    /\ IF Len(loadVideoFile(dslPaths[1])) # 1
       THEN Die("BabulusError") /\ genCalls' = genCalls
       ELSE \E config \in {"loaded"} \cup ErrorKinds :
            IF config # "loaded"
            THEN Die(config) /\ genCalls' = genCalls
            ELSE /\ pc' = "generating"
                 /\ exit' = exit /\ failure' = failure
                 /\ genCalls' = genCalls + 1
    /\ UNCHANGED <<resolveVars, deriveVars, worldVars, dslPaths, watchVars, genDone,
                   renderCalls>>

PipelineLoadThrows ==
    /\ cmd = "pipeline" /\ pc = "loading"
    /\ \E kind \in ErrorKinds : Die(kind)
    /\ UNCHANGED <<resolveVars, deriveVars, worldVars, dslPaths, runs, watchVars, callVars>>

\* Lines 267-277: generateComposition resolved; the script and the timeline it
\* wrote are read back, then the renderer is called.
PipelineGenerateReturns ==
    /\ cmd = "pipeline" /\ pc = "generating"
    /\ genDone' = genDone + 1
    /\ \E written \in {"json", "missing"} :
         IF ReadJson(written) = "threw"
         THEN Die("Error") /\ renderCalls' = renderCalls
         ELSE /\ pc' = "rendering"
              /\ exit' = exit /\ failure' = failure
              /\ renderCalls' = renderCalls + 1
    /\ UNCHANGED <<resolveVars, deriveVars, worldVars, dslPaths, runs, watchVars, genCalls>>

PipelineGenerateThrows ==
    /\ cmd = "pipeline" /\ pc = "generating"
    /\ \E kind \in ErrorKinds : Die(kind)
    /\ UNCHANGED <<resolveVars, deriveVars, worldVars, dslPaths, runs, watchVars, callVars>>

(***************************************************************************)
(* Spec: one invocation of vml.                                            *)
(***************************************************************************)
\* Working directories and arguments of the invocations.
TwoInD == <<DirEntry(NameD, <<FileEntry(NameB), FileEntry(NameA)>>)>>
OneInCwd == <<FileEntry(NameA), FileEntry(NameN)>>
TwoInContent == <<DirEntry(ContentName, <<FileEntry(NameA), FileEntry(NameB)>>)>>
EmptyD == <<DirEntry(NameD, <<>>)>>
OnlyB == <<FileEntry(NameB)>>
Scenes ==
    {<<TwoInD, NameD>>, <<OneInCwd, Undefined>>, <<OneInCwd, NameA>>,
     <<TwoInContent, Undefined>>, <<OneInCwd, NameX>>, <<EmptyD, NameD>>}

\* What the loader yields for a file of each name.
DeclaredPool ==
    {[n \in {NameA, NameB, NameN} |-> <<IdI>>],
     (NameA :> <<IdI, IdJ>>) @@ (NameB :> <<>>) @@ (NameN :> <<>>)}

\* Values of --project-dir: absolute, with a trailing separator, relative, ".".
ProjectDirArgs == {RootP, RootP \o Sep, <<"p">>, Dot}

GenerateOpts ==
    {[NoOpts EXCEPT !.scriptOut = o] : o \in OverrideValues}
    \cup {[NoOpts EXCEPT !.projectDir = d] : d \in ProjectDirArgs}
    \cup {[NoOpts EXCEPT !.watch = TRUE, !.scriptOut = o] : o \in {Undefined, OutO}}
    \cup {[NoOpts EXCEPT !.usageOut = UsageU]}
    \cup {[NoOpts EXCEPT !.watch = w, !.projectDir = RootP] : w \in BOOLEAN}

InitGenerate ==
    /\ cmd = "generate"
    /\ \E scene \in Scenes : cwdEntries = scene[1] /\ dslArg = scene[2]
    /\ opts \in GenerateOpts
    /\ opts.watch => dslArg # NameA
    /\ declared \in DeclaredPool
    /\ configFiles \in {{}, {"babulus"}}
    /\ renderFiles = NoRenderFiles

InitRender ==
    /\ cmd = "render"
    /\ renderFiles \in [script : {"json", "missing", "garbage"},
                        timeline : {"absent", "json", "missing", "garbage"}]
    /\ cwdEntries = <<>> /\ dslArg = Undefined
    /\ opts = NoOpts /\ declared = NoDeclared /\ configFiles = {}

InitPipeline ==
    /\ cmd = "pipeline"
    /\ \E scene \in Scenes \cup {<<OnlyB, NameB>>} :
          cwdEntries = scene[1] /\ dslArg = scene[2]
    /\ opts \in {NoOpts, [NoOpts EXCEPT !.projectDir = RootP]}
    /\ declared \in DeclaredPool
    /\ configFiles = {}
    /\ renderFiles = NoRenderFiles

Init ==
    /\ (InitGenerate \/ InitRender \/ InitPipeline)
    /\ resolved = Pending
    /\ DeriveIdle
    /\ ProcessIdle

Next ==
    \/ GenerateBegin
    \/ LoadVideoFileReturns
    \/ LoadVideoFileThrows
    \/ \E i \in 1..MaxEvents : GenerateCompositionReturns(i)
    \/ \E i \in 1..MaxEvents : GenerateCompositionThrows(i)
    \/ \E changedPath \in EventPaths : ChangeEvent(changedPath)
    \/ Interrupt
    \/ RenderBegin
    \/ RenderReturns
    \/ RenderThrows
    \/ PipelineBegin
    \/ PipelineLoadReturns
    \/ PipelineLoadThrows
    \/ PipelineGenerateReturns
    \/ PipelineGenerateThrows

Spec == Init /\ [][Next]_vars

\* The invocation when every generateComposition call that is awaited resolves
\* in the end, as long as the process lives.
SpecLive == Spec /\ WF_vars(\E i \in 1..MaxEvents : GenerateCompositionReturns(i))

(***************************************************************************)
(* Claims about source resolution, checked under SpecResolve.              *)
(***************************************************************************)
\* The regular files below a directory whose names end in a source extension.
RECURSIVE SourceFilesBelow(_, _)
SourceFilesBelow(root, entries) ==
    UNION {IF entries[i].type = "dir"
           THEN SourceFilesBelow(Join(root, entries[i].name), entries[i].entries)
           ELSE IF /\ entries[i].type = "file"
                   /\ \/ EndsWith(entries[i].name, DotBabulusTs)
                      \/ EndsWith(entries[i].name, DotBabulusXml)
                THEN {Join(root, entries[i].name)}
                ELSE {} : i \in 1..Len(entries)}

\* The regular source files directly in a directory.
SourceFilesIn(root, entries) ==
    {Join(root, entries[i].name) : i \in
        {j \in 1..Len(entries) :
            /\ entries[j].type = "file"
            /\ \/ EndsWith(entries[j].name, DotBabulusTs)
               \/ EndsWith(entries[j].name, DotBabulusXml)}}

StrictlySorted(paths) ==
    \A i, j \in 1..Len(paths) : i < j => StrLess(paths[i], paths[j])

Elements(paths) == {paths[i] : i \in 1..Len(paths)}

\* The [dsl] argument names a directory: the working directory, the one above
\* it, or one in the working directory, be it through a symbolic link.
ArgNamesEntry(i) ==
    dslArg \in {cwdEntries[i].name, cwdEntries[i].name \o Sep}

ArgIsDirectory ==
    \/ dslArg \in {Dot, DotDot}
    \/ \E i \in 1..Len(cwdEntries) :
          ArgNamesEntry(i) /\ StatKind(cwdEntries[i]) = "dir"

\* The directory the argument names and its entries.
ArgDirectory ==
    IF dslArg = Dot THEN [path |-> Cwd, entries |-> cwdEntries]
    ELSE IF dslArg = DotDot
    THEN [path |-> Dirname(Cwd), entries |-> RootEntries(Cwd, cwdEntries)]
    ELSE LET i == CHOOSE k \in 1..Len(cwdEntries) : ArgNamesEntry(k)
         IN [path |-> Join(Cwd, cwdEntries[i].name), entries |-> cwdEntries[i].entries]

\* The files below a directory whose names end in a source extension, a file
\* being what opens as one: a regular file or a symbolic link to one.
RECURSIVE SourcesBelow(_, _)
SourcesBelow(root, entries) ==
    UNION {IF entries[i].type = "dir"
           THEN SourcesBelow(Join(root, entries[i].name), entries[i].entries)
           ELSE IF /\ StatKind(entries[i]) = "file"
                   /\ \/ EndsWith(entries[i].name, DotBabulusTs)
                      \/ EndsWith(entries[i].name, DotBabulusXml)
                THEN {Join(root, entries[i].name)}
                ELSE {} : i \in 1..Len(entries)}

ContentDirs == {i \in 1..Len(cwdEntries) : cwdEntries[i].name = ContentName}

\* C4 as stated: with no argument, two or more source files below content/ are
\* all returned, sorted; without content/, two or more source files in the
\* working directory are rejected with the validation error.
C4_ContentAllowsManyElseAmbiguous ==
    (resolved # Pending /\ dslArg = Undefined) =>
        /\ \A i \in ContentDirs :
              (/\ cwdEntries[i].type = "dir"
               /\ Cardinality(SourceFilesBelow(Join(Cwd, ContentName),
                                               cwdEntries[i].entries)) >= 2)
              => /\ resolved.err = "none"
                 /\ Elements(resolved.paths) =
                        SourceFilesBelow(Join(Cwd, ContentName), cwdEntries[i].entries)
                 /\ StrictlySorted(resolved.paths)
        /\ (ContentDirs = {} /\ Cardinality(SourceFilesIn(Cwd, cwdEntries)) >= 2)
              => resolved.err = "BabulusError"

\* C9 as stated: a directory argument resolves to exactly the files below it
\* whose names end in .babulus.ts or .babulus.xml, each once, the whole
\* result in ascending string order.
C9_DirectoryScanExactSorted ==
    (resolved # Pending /\ ArgIsDirectory) =>
        /\ resolved.err = "none"
        /\ Elements(resolved.paths) = SourcesBelow(ArgDirectory.path, ArgDirectory.entries)
        /\ Len(resolved.paths) = Cardinality(Elements(resolved.paths))
        /\ StrictlySorted(resolved.paths)

\* The part of C9 that holds: a directory argument resolves to exactly the
\* regular files below it whose names end in .babulus.ts or .babulus.xml,
\* each once, the whole result in ascending string order.
RegularFilesScanExactSorted ==
    (resolved # Pending /\ ArgIsDirectory) =>
        /\ resolved.err = "none"
        /\ Elements(resolved.paths) =
               SourceFilesBelow(ArgDirectory.path, ArgDirectory.entries)
        /\ Len(resolved.paths) = Cardinality(Elements(resolved.paths))
        /\ StrictlySorted(resolved.paths)

\* A scan the part that holds is about: the working directory was scanned;
\* readdir listed a subdirectory holding a source file before a source file
\* that sorts first, and an unrelated file beside them.
RegularFilesScanWitness ==
    /\ resolved.err = "none"
    /\ dslArg = Dot
    /\ Len(cwdEntries) = 2
    /\ cwdEntries[1].type = "dir"
    /\ Len(cwdEntries[1].entries) = 2
    /\ \E i \in 1..2 : cwdEntries[1].entries[i].name = NameN
    /\ cwdEntries[2] = FileEntry(NameA)
    /\ Len(resolved.paths) = 2
    /\ resolved.paths[1] = Join(Cwd, NameA)

(***************************************************************************)
(* Claims about artifact path derivation, checked under SpecDerive.        *)
(***************************************************************************)
\* The path rel below the project root.
Below(root, rel) == IF root = Sep THEN Sep \o rel ELSE root \o Sep \o rel

DeriveRoot ==
    IF deriveIn.projectDir # Undefined THEN deriveIn.projectDir ELSE deriveIn.foundRoot

\* The default of each field: <root>/src/videos/<id>/<id>.script.json,
\* <root>/src/videos/<id>/<id>.timeline.json, <root>/public/videoml/<id>.wav,
\* <root>/.videoml/out/<id>.
DefaultTemplate(field, root, id) ==
    CASE field = "scriptOut" ->
            Below(root, <<"s", "r", "c", "/", "v", "i", "d", "e", "o", "s", "/">> \o id
                \o Sep \o id \o <<".", "s", "c", "r", "i", "p", "t", ".", "j", "s", "o", "n">>)
      [] field = "timelineOut" ->
            Below(root, <<"s", "r", "c", "/", "v", "i", "d", "e", "o", "s", "/">> \o id
                \o Sep \o id
                \o <<".", "t", "i", "m", "e", "l", "i", "n", "e", ".", "j", "s", "o", "n">>)
      [] field = "audioOut" ->
            Below(root, <<"p", "u", "b", "l", "i", "c", "/", "v", "i", "d", "e", "o", "m", "l", "/">>
                \o id \o <<".", "w", "a", "v">>)
      [] field = "outDir" ->
            Below(root, <<".", "v", "i", "d", "e", "o", "m", "l", "/", "o", "u", "t", "/">> \o id)

OverrideFields == {"scriptOut", "timelineOut", "audioOut", "outDir"}

\* C8: each field of the derived paths is its override string when one is given
\* and its default template otherwise, whatever the other three fields are.
C8_FieldsIndependent ==
    derived.done =>
        \A f \in OverrideFields :
            derived.paths[f] = IF deriveIn.opts[f] # Undefined
                         THEN deriveIn.opts[f]
                         ELSE DefaultTemplate(f, DeriveRoot, deriveIn.compId)

\* C8 witness: scriptOut alone is overridden, with the empty string, and the
\* other three fields hold their defaults below an explicit project root.
C8_Witness ==
    /\ derived.done
    /\ deriveIn.opts = [NoOverrides EXCEPT !.scriptOut = <<>>]
    /\ deriveIn.projectDir = RootP
    /\ derived.paths.scriptOut = <<>>
    /\ derived.paths.outDir = RootP \o Sep \o VideomlOut \o deriveIn.compId

(***************************************************************************)
(* Claims about the commands, checked under Spec.                          *)
(***************************************************************************)
\* The executions of runOnce the state remembers: those awaiting a call and the
\* one that ended last.
Executions == {batches[i] : i \in 1..Len(batches)} \cup ({finished} \ {NoBatch})

WatchTriggers == {"config", "dsl", "shared"}

\* The calls execution b has issued so far, as <<dslPath, composition id>>.
IssuedCalls(b) ==
    LET plan == runOnce(runs, b.dslSubset, ProjectDir, opts)
    IN [k \in 1..b.issued |-> <<plan[k].dslPath, plan[k].composition>>]

\* C1 as stated: in watch mode at most one execution of runOnce is in flight.
C1_AtMostOneRebuildInFlight ==
    cmd = "generate" /\ opts.watch => Len(batches) <= 1

\* C2 as stated: the change events delivered while a rebuild is in flight cause
\* at most one further rebuild between them.
C2_EventsDuringRebuildCoalesced ==
    \A b \in Executions : b.trigger \in WatchTriggers => b.overlapped <= 1

\* An output override is supplied: one of the four path options has a value.
OverrideSupplied ==
    \E f \in OverrideFields : opts[f] # Undefined

\* C3 as stated: generate with an output override and a total of compositions
\* other than one ends in the validation error, no generation call made.
C3_OverrideNeedsOneComposition ==
    (/\ cmd = "generate"
     /\ OverrideSupplied
     /\ resolved.err = "none"
     /\ pc \notin {"start", "loading"}
     /\ Len(runs) = Len(dslPaths)
     /\ TotalComps(runs) # 1)
    => (exit = "2" /\ genCalls = 0)

\* The compositions of the run of a tracked source path, in declaration order.
CompositionsAt(path) ==
    runs[CHOOSE r \in 1..Len(runs) : runs[r].path = path].compositions

\* C5: a change event on a tracked source path other than the config path
\* starts a rebuild of that source alone: its calls are the compositions of
\* that run, in declaration order, all of them once it has returned.
C5_SourceChangeScoped ==
    /\ (/\ lastEvent # NoEvent
        /\ Includes(dslPaths, lastEvent.path)
        /\ lastEvent.path # session.configPath)
       => lastEvent.branch = "dsl"
    /\ \A b \in Executions :
         b.trigger = "dsl" =>
            LET path == b.dslSubset[1]
                expected == CompositionsAt(path)
            IN /\ Includes(dslPaths, path)
               /\ b.issued <= Len(expected)
               /\ IssuedCalls(b) = [k \in 1..b.issued |-> <<path, expected[k]>>]
               /\ b.status = "done" => b.issued = Len(expected)

\* C5 witness: a rebuild for one of two tracked sources has returned, having
\* called the generator for that source and not for the other one's composition.
C5_Witness ==
    /\ finished.trigger = "dsl"
    /\ finished.status = "done"
    /\ finished.issued >= 1
    /\ Len(runs) = 2
    /\ TotalComps(runs) > finished.issued

\* C6 as stated: a failed rebuild of a watch session does not end the session.
C6_FailedRebuildKeepsSession ==
    (finished.trigger \in WatchTriggers /\ finished.status = "failed")
    => exit \in {"running", "SIGINT"}

\* C7: pipeline calls the renderer at most once, only after its one generation
\* call has resolved, and exactly once when it succeeds; with other than one
\* source file or other than one composition it ends in the validation error
\* with no generation and no render call.
C7_PipelineOneGenerateThenOneRender ==
    cmd = "pipeline" =>
        /\ genCalls <= 1 /\ renderCalls <= 1
        /\ renderCalls = 1 => (genCalls = 1 /\ genDone = 1)
        /\ exit = "0" => renderCalls = 1
        /\ (pc # "start" /\ (resolved.err = "BabulusError" \/
                             (resolved.err = "none" /\ Len(resolved.paths) # 1)))
           => (exit = "2" /\ genCalls = 0 /\ renderCalls = 0)
        /\ (runs # <<>> /\ Len(runs[1].compositions) # 1)
           => (exit = "2" /\ genCalls = 0 /\ renderCalls = 0)

\* C7 witness: a pipeline run ended with exit code 0 after one generation call
\* and one render call.
C7_Witness ==
    /\ cmd = "pipeline"
    /\ exit = "0"
    /\ genCalls = 1 /\ genDone = 1 /\ renderCalls = 1

\* C10 as stated: render with no file at --script ends in the validation
\* error (exit code 2) without calling the renderer.
C10_MissingScriptIsValidationError ==
    (cmd = "render" /\ renderFiles.script = "missing" /\ pc = "exited")
    => (exit = "2" /\ renderCalls = 0)

(***************************************************************************)
(* Claims about exit codes and the watch engine, checked under Spec.       *)
(***************************************************************************)
\* C11 as stated: a process that ended on a BabulusError exited with code 2, on
\* any other error with code 1, and without an error with code 0; a watch
\* session that met no error is running or was interrupted.
C11_ExitCodeByOutcome ==
    /\ pc = "exited" =>
          /\ failure = "BabulusError" => exit = "2"
          /\ failure = "Error" => exit = "1"
          /\ failure = "none" => exit \in {"0", "SIGINT"}
    /\ (cmd = "generate" /\ opts.watch /\ failure = "none")
          => exit \in {"running", "SIGINT"}

\* The rebuilds started by the change events of the current burst.
BurstRebuilds == {b \in Executions : b.since > events - Len(burst)}

\* C12 as stated: a burst of change events holding both a config change and a
\* source change has started exactly one rebuild, and that one is a full one.
C12_BurstIsOneFullRebuild ==
    (Includes(burst, "config") /\ Includes(burst, "dsl"))
    => /\ Cardinality(BurstRebuilds) = 1
       /\ \A b \in BurstRebuilds : b.dslSubset = AllRuns

\* The calls a batch is to make: run by run in the order of runs, and within a
\* run composition by composition in declaration order.
RECURSIVE CallsInOrder(_)
CallsInOrder(rs) ==
    IF rs = <<>> THEN <<>>
    ELSE [c \in 1..Len(Head(rs).compositions) |-> <<Head(rs).path, Head(rs).compositions[c]>>]
         \o CallsInOrder(Tail(rs))

\* The runs a batch with the given subset covers, in the order of runs.
RunsCovered(dslSubset) ==
    LET Covered(r) == dslSubset = AllRuns \/ Includes(dslSubset, r.path)
    IN SelectSeq(runs, Covered)

\* C13: every execution of runOnce has exactly one generation call in flight
\* while it runs, and the calls it has issued are the first ones of its runs'
\* compositions taken run by run, each run's in declaration order.
C13_BatchCallsSequentialInOrder ==
    /\ (cmd = "generate" /\ pc \in {"generating", "watching"})
          => /\ genCalls - genDone = Len(batches)
             /\ \A i \in 1..Len(batches) : batches[i].issued >= 1
    /\ cmd = "generate" =>
          \A b \in Executions :
             LET expected == CallsInOrder(RunsCovered(b.dslSubset))
             IN /\ b.issued <= Len(expected)
                /\ IssuedCalls(b) = SubSeq(expected, 1, b.issued)
                /\ b.status = "done" => b.issued = Len(expected)
                /\ b.trigger = "oneshot" =>
                      /\ genCalls = b.issued
                      /\ genDone = IF b.status = "done" THEN b.issued ELSE b.issued - 1

\* C13 witness: the plain run of two sources awaits its second call, the one for
\* the second source, after the first call has resolved.
C13_Witness ==
    /\ Len(batches) = 1
    /\ batches[1].trigger = "oneshot"
    /\ batches[1].issued = 2
    /\ Len(runs) = 2
    /\ genCalls = 2 /\ genDone = 1

\* The exit code the catch of program.parseAsync gives an error.
ExitCodeOf(kind) == IF kind = "BabulusError" THEN "2" ELSE "1"

\* C14: once a generation call of a batch has rejected, the batch has made its
\* last call: the process has ended on that very error, with no execution of
\* runOnce left running; in the plain run the calls made are those up to the
\* rejected one and the exit code is the one of that error.
C14_FailureAbortsBatch ==
    finished.status = "failed" =>
        /\ finished.error \in ErrorKinds
        /\ failure = finished.error
        /\ pc = "exited"
        /\ batches = <<>>
        /\ finished.trigger = "oneshot" =>
              /\ genCalls = finished.issued
              /\ genDone = finished.issued - 1
              /\ exit = ExitCodeOf(finished.error)

\* C14 witness: the plain run of two compositions ended when the call for the
\* first one rejected; the second one was never generated.
C14_Witness ==
    /\ finished.trigger = "oneshot"
    /\ finished.status = "failed"
    /\ finished.issued = 1
    /\ TotalComps(runs) = 2
    /\ genCalls = 1
    /\ pc = "exited"

\* The changed path lies below a tracked source directory.
UnderTrackedDirectory(path) ==
    \E i \in 1..Len(dslPaths) : StartsWith(path, Dirname(dslPaths[i]) \o Sep)

\* A config change (the path is the resolved config path) or a shared change
\* (below a tracked source directory, extension .ts, .xml, .yml or .yaml, not a
\* tracked source path).
FullRebuildChange(path) ==
    \/ (session.configPath # Undefined /\ path = session.configPath)
    \/ /\ UnderTrackedDirectory(path)
       /\ \/ EndsWith(path, DotTs) \/ EndsWith(path, DotXml)
          \/ EndsWith(path, DotYml) \/ EndsWith(path, DotYaml)
       /\ ~Includes(dslPaths, path)

\* C15 as stated: the change event just delivered, when it is a config change
\* or a shared change, has started a rebuild of every run.
C15_ConfigOrSharedChangeIsFull ==
    (burst # <<>> /\ FullRebuildChange(lastEvent.path))
    => \E b \in Executions : b.since = events /\ b.dslSubset = AllRuns

\* An Irrelevant change: the extension is none of .ts, .xml, .yml, .yaml, or the
\* path is neither the config path, nor a tracked source path, nor below a
\* tracked source directory.
IrrelevantChange(path) ==
    \/ ~(\/ EndsWith(path, DotTs) \/ EndsWith(path, DotXml)
         \/ EndsWith(path, DotYml) \/ EndsWith(path, DotYaml))
    \/ /\ ~(session.configPath # Undefined /\ path = session.configPath)
       /\ ~Includes(dslPaths, path)
       /\ ~UnderTrackedDirectory(path)

\* C16: the delivery of a change event takes one branch of the handler and
\* starts at most one execution of runOnce; the delivery of an Irrelevant one
\* takes the ignoring branch, starts none, issues no generation call and leaves
\* the session, the runs, the executions in flight and the process as they were.
C16_OneClassPerEventIrrelevantDropped ==
    [][events' = events + 1 =>
          /\ lastEvent'.branch \in {"config", "dsl", "shared", "ignored"}
          /\ Cardinality({b \in Executions' : b.since = events'}) <= 1
          /\ genCalls' - genCalls \in {0, 1}
          /\ IrrelevantChange(lastEvent'.path) =>
                /\ lastEvent'.branch = "ignored"
                /\ UNCHANGED <<batches, finished, genCalls, genDone, session, dslPaths,
                               runs, pc, exit, failure>>]_vars

\* C16 witness: while a rebuild was awaiting its call, a change of the .png file
\* beside the sources was delivered and dropped.
C16_Witness ==
    /\ burst # <<>>
    /\ lastEvent.branch = "ignored"
    /\ EndsWith(lastEvent.path, <<".", "p", "n", "g">>)
    /\ UnderTrackedDirectory(lastEvent.path)
    /\ Len(batches) = 1
    /\ batches[1].since < events
    /\ genCalls = 1

\* Event k, the last one delivered, or a later event has started a rebuild that
\* covers the path of event k: a full one, or one scoped to that very path.
Answered(k) ==
    \/ /\ events = k
       /\ \E b \in Executions :
             /\ b.since = k
             /\ (b.dslSubset = AllRuns \/ Includes(b.dslSubset, lastEvent.path))
    \/ \E b \in Executions : b.since > k /\ b.dslSubset = AllRuns

\* C17 as stated: every change event that is not Irrelevant is followed by a
\* rebuild started at or after its delivery that covers its path, unless the
\* process is interrupted or ends.
C17_NoRelevantEventLost ==
    \A k \in 1..MaxEvents :
        (events = k /\ burst # <<>> /\ ~IrrelevantChange(lastEvent.path))
        ~> (Answered(k) \/ exit # "running")

\* The four artifact paths of a generation request.
ArtifactFields == {"scriptOut", "timelineOut", "audioOut", "outDir"}

\* C18 as stated, for the batches whose paths are all derived (no output
\* override given): no execution of runOnce issues two calls that share a
\* script, timeline, audio or outDir path.
C18_NoSharedArtifactPathInBatch ==
    ~OverrideSupplied =>
    \A b \in Executions :
        LET plan == runOnce(runs, b.dslSubset, ProjectDir, opts)
        IN \A k, l \in 1..b.issued :
              k < l => \A f \in ArtifactFields : plan[k][f] # plan[l][f]

\* C19: a watch session makes no initial run: it goes from loading straight to
\* watching, every execution of runOnce it knows was started by a change event,
\* and as long as no event, or none but ignored ones, has been delivered no
\* generation call has been made.
C19_WatchStartsWithoutGeneration ==
    (cmd = "generate" /\ opts.watch) =>
        /\ pc # "generating"
        /\ \A b \in Executions : b.trigger \in WatchTriggers /\ b.since >= 1
        /\ events = 0 => (genCalls = 0 /\ Executions = {})
        /\ (Len(burst) = events /\ \A k \in 1..Len(burst) : burst[k] = "ignored")
              => genCalls = 0
        /\ (genCalls > 0 /\ exit = "running") => Executions # {}

\* C19 witness: a watch session over a source with a composition is watching,
\* has been delivered one event, an ignored one, and has generated nothing.
C19_Witness ==
    /\ cmd = "generate" /\ opts.watch
    /\ pc = "watching"
    /\ TotalComps(runs) >= 1
    /\ events = 1
    /\ lastEvent.branch = "ignored"
    /\ genCalls = 0

\* The runs as loadCompositions built them at startup: one per resolved path, in
\* order, with the compositions the loader yielded for it.
RunsAsLoaded ==
    /\ Len(runs) = Len(dslPaths)
    /\ \A r \in 1..Len(runs) :
          runs[r] = [path |-> dslPaths[r], compositions |-> loadVideoFile(dslPaths[r])]

\* C20: the step that starts watching leaves the session computed from the
\* resolved paths and the runs as loaded; no later step of the session (a change
\* event, a call that resolves or rejects, an interrupt) changes the config
\* path, the source and watched directories, the tracked paths or the runs, and
\* none takes the action back to loading.
C20_WatchSessionFixedAtStartup ==
    [][/\ (pc # "watching" /\ pc' = "watching") =>
             /\ session' = WatchSession(dslPaths')
             /\ RunsAsLoaded'
       /\ pc = "watching" =>
             /\ UNCHANGED <<session, dslPaths, runs, declared, resolved>>
             /\ pc' \in {"watching", "exited"}]_vars

\* C20 witness: a watch session has been delivered two events and a rebuild of
\* it has returned; it is watching still, with the session it started with.
C20_Witness ==
    /\ pc = "watching"
    /\ events >= 2
    /\ finished.trigger \in WatchTriggers
    /\ finished.status = "done"
    /\ finished.issued >= 1
    /\ session = WatchSession(dslPaths)
    /\ Len(session.watchDirs) = 2

====
